---- MODULE Spec2Model ----
(***************************************************************************)
(* A model of the 5.1 audio router: the AudioRouter object of              *)
(* audio_router.py (its control methods and the _process_audio worker      *)
(* thread) and the FastAPI handlers of router_web.py that call it.         *)
(*                                                                         *)
(* Control methods run to completion in one step (the web handlers are     *)
(* coroutines of one event loop and never await inside a router call).     *)
(* The worker thread runs concurrently with them and is modelled one       *)
(* shared-state access at a time, so a control method may run between any  *)
(* two accesses of the worker.                                             *)
(*                                                                         *)
(* Sample values are not part of the threaded model: a mixed bus is kept   *)
(* as the gain map the worker actually summed with, a delay buffer as its  *)
(* length.  The delay line on concrete samples is the second               *)
(* specification, SpecDelay.                                               *)
(***************************************************************************)
EXTENDS Integers, Sequences, FiniteSets, TLC

\* ---------------------------------------------------------------- constants
CHUNK_SIZE == 512
DefaultRate == 48000
InputChannels == 6
DefaultLowCutoff == 20
DefaultHighCutoff == 25000

\* ------------------------------------------------------------------- bounds
\* number of control calls in one behaviour
MaxOps == 4
\* number of worker threads one behaviour may create
MaxThreads == 2

\* output device ids the control path names; input device ids and their
\* native sample rates; an id the audio library does not know
Devices == {2, 3}
InputDevices == {0, 1}
BadDevice == 9
DeviceRate(dev) == IF dev = 0 THEN 48000 ELSE 44100
Channels == {0, 1}
Gains == {0, 1}
Sides == {"L", "R", "X"}
LatencyMs == {0, 10}
FilterBands == {<<80, 12000>>}
Workers == 1..MaxThreads

\* number of requests in one behaviour of the web layer alone
MaxRequests == 5

\* the delay line on concrete samples: frames per chunk, largest latency in
\* samples, chunks fed, and the sample rates that size the deque
DelayFrames == 1
MaxLatency == 5
MaxChunks == 6
\* calls of set_latency on the delay line
MaxRetunes == 2
DelayRates == {2, 8}

\* the mix on concrete samples: frames per chunk; channel indices, of which
\* 7 does not exist; gains
MixFrames == 2
MixChannels == {0, 1, 7}
MixGains == {0 - 1, 0, 1, 2}

\* the destination and the arguments of set_latency (ms) and set_filter (Hz)
\* called over a range of numbers
ConfigDevices == {2}
ConfigMs == {0, 5, 9, 10, 18, 25}
ConfigLows == {0, 80, 5000, 21950, 23950}
ConfigHighs == {50, 1000, 12000, 25000}

\* ----------------------------------------------------------------- state
VARIABLES
    \* AudioRouter fields
    running, input_device, sample_rate, input_stream, output_devices,
    connections, latency_offsets, latency_buffers, output_levels,
    input_levels, streams, filters,
    \* the worker threads: position and locals of _process_audio
    pc, devs, idx, filter_cfg, l_mix, r_mix, it, left, right, output,
    \* bookkeeping of the current chunk iteration of each worker
    stopped, iters_after_stop, done, wfail, stable, removed, abort, seen,
    \* per destination, the filter stages that have not begun a process() since
    \* set_filter last returned
    fresh,
    \* router_web.py: the global router, the last request and its response;
    \* the routing state as it was at the last stop()
    router, request, response, at_stop,
    \* number of control calls so far
    ops,
    \* one delay line on concrete samples: its latency in samples, the deque
    \* and its maxlen, the chunks fed and the chunks emitted so far, and
    \* whether the deque ever dropped samples at its maxlen; the number of
    \* chunks that had been fed when set_latency last ran
    dl_latency, dl_buffer, dl_maxlen, dl_in, dl_out, dl_dropped, dl_set_at,
    \* one destination's pass of the worker on concrete samples: the input
    \* chunk, the stereo chunk handed to the stream, and how the pass ended
    mx_audio, mx_output, mx_status

progVars == <<running, input_device, sample_rate, input_stream, output_devices,
              connections, latency_offsets, latency_buffers, output_levels,
              input_levels, streams, filters>>
thrVars == <<pc, devs, idx, filter_cfg, l_mix, r_mix, it, left, right, output>>
histVars == <<stopped, iters_after_stop, done, wfail, stable, removed, abort, seen,
              fresh>>
webVars == <<router, request, response, at_stop>>
dlVars == <<dl_latency, dl_buffer, dl_maxlen, dl_in, dl_out, dl_dropped,
            dl_set_at>>
mxVars == <<mx_audio, mx_output, mx_status>>
vars == <<progVars, thrVars, histVars, webVars, ops, dlVars, mxVars>>

\* ------------------------------------------------------------ dictionaries
EmptyDict == << >>
Put(f, k, v) == [x \in DOMAIN f \cup {k} |-> IF x = k THEN v ELSE f[x]]
Del(f, k) == [x \in DOMAIN f \ {k} |-> f[x]]
Keys(s) == {s[n] : n \in DOMAIN s}
SeqWithout(s, k) == SelectSeq(s, LAMBDA x : x # k)

\* a reference to a gain map held in a worker local: live while it is the
\* dict object connections[device_id][side], else the object it pointed to
NoRef == [live |-> FALSE, val |-> EmptyDict]
LiveRef == [live |-> TRUE, val |-> EmptyDict]
NoIter == [size |-> 0, visited |-> {}]

\* deque(maxlen = sample_rate * 2)
NewBuffer(rate) == [maxlen |-> rate * 2, len |-> 0]

\* a BiquadFilter() as constructed: b0 = 1, the rest 0
Unity == [cutoff |-> 0, rate |-> 0]
\* the four BiquadFilter objects of a destination in the order the worker calls
\* them, and for each whether its state is z1 = z2 = 0
FilterStages == <<"highpass_L", "lowpass_L", "highpass_R", "lowpass_R">>
AllZero == [stage \in DOMAIN FilterStages |-> TRUE]
NewFilter == [low_cutoff |-> DefaultLowCutoff, high_cutoff |-> DefaultHighCutoff,
              highpass |-> Unity, lowpass |-> Unity, zeroed |-> AllZero,
              enabled |-> FALSE]
\* the worker's local filter_cfg: no dict, the dict filters[device_id], or a
\* dict that remove_output has taken out of filters; and the stage it is at
NoCfg == [ref |-> "none", stage |-> 0]

Max(a, b) == IF a >= b THEN a ELSE b
Min(a, b) == IF a <= b THEN a ELSE b

\* ------------------------------------------------------------------- Init
NoDevice == 0 - 1
NoView == [valid |-> FALSE, destinations |-> << >>, connections |-> EmptyDict,
           filters |-> EmptyDict, latency_ms |-> EmptyDict]

\* AudioRouter.__init__
InitRouter ==
    /\ running = FALSE
    /\ input_device = NoDevice
    /\ sample_rate = DefaultRate
    /\ input_stream = "none"
    /\ output_devices = << >>
    /\ connections = EmptyDict
    /\ latency_offsets = EmptyDict
    /\ latency_buffers = EmptyDict
    /\ output_levels = EmptyDict
    /\ input_levels = "zero"
    /\ streams = {}
    /\ filters = EmptyDict
    /\ pc = [w \in Workers |-> "none"]
    /\ devs = [w \in Workers |-> << >>]
    /\ idx = [w \in Workers |-> 0]
    /\ filter_cfg = [w \in Workers |-> NoCfg]
    /\ l_mix = [w \in Workers |-> NoRef]
    /\ r_mix = [w \in Workers |-> NoRef]
    /\ it = [w \in Workers |-> NoIter]
    /\ left = [w \in Workers |-> EmptyDict]
    /\ right = [w \in Workers |-> EmptyDict]
    /\ output = [w \in Workers |-> "none"]
    /\ stopped = [w \in Workers |-> FALSE]
    /\ iters_after_stop = [w \in Workers |-> 0]
    /\ done = [w \in Workers |-> {}]
    /\ wfail = [w \in Workers |-> {}]
    /\ stable = [w \in Workers |-> {}]
    /\ removed = [w \in Workers |-> FALSE]
    /\ abort = [w \in Workers |-> "none"]
    /\ seen = [w \in Workers |-> {}]
    /\ fresh = [d \in Devices |-> {}]
    /\ ops = 0

InitIdle ==
    /\ request = [endpoint |-> "none"]
    /\ response = "none"
    /\ at_stop = NoView

InitNoDelay ==
    /\ dl_latency = 0
    /\ dl_buffer = << >>
    /\ dl_maxlen = 0
    /\ dl_in = << >>
    /\ dl_out = << >>
    /\ dl_dropped = FALSE
    /\ dl_set_at = 0

InitNoMix ==
    /\ mx_audio = << >>
    /\ mx_output = << >>
    /\ mx_status = "none"

Init == InitRouter /\ InitIdle /\ router = "AudioRouter" /\ InitNoDelay /\ InitNoMix


\* ------------------------------------------------------- worker positions
\* positions of _process_audio after the destination snapshot was taken
DeviceStates == {"chk", "get_l", "get_r", "iter_l", "next_l", "iter_r",
                 "next_r", "filt", "proc", "proc_end", "lat", "levels",
                 "write"}
\* positions between reading connections[d]['L'] and the end of the R mix
MixStates == {"get_r", "iter_l", "next_l", "iter_r", "next_r"}
Alive(w) == pc[w] \notin {"none", "done"}
InChunk(w) == pc[w] \in DeviceStates
\* device_id of the for loop
Cur(w) == devs[w][idx[w]]
InMix(w, d) == pc[w] \in MixStates /\ Cur(w) = d

\* the worker's references to the gain maps of d stop being the live dicts
\* when connections[d] is replaced or deleted
DetachL(d) ==
    [w \in Workers |->
        IF l_mix[w].live /\ InChunk(w) /\ Cur(w) = d
        THEN [live |-> FALSE, val |-> connections[d]["L"]] ELSE l_mix[w]]
DetachR(d) ==
    [w \in Workers |->
        IF r_mix[w].live /\ InChunk(w) /\ Cur(w) = d
        THEN [live |-> FALSE, val |-> connections[d]["R"]] ELSE r_mix[w]]
\* the gain maps of d after a change, recorded for the workers mixing d
Observe(d, conn) ==
    [w \in Workers |->
        IF InMix(w, d) THEN seen[w] \cup {<<conn[d]["L"], conn[d]["R"]>>}
        ELSE seen[w]]

\* ----------------------------------------------------- AudioRouter methods
\* start(input_device_id); opened: the output streams p.open succeeds for,
\* input_ok: whether p.open of the input stream succeeds
FreeWorker == CHOOSE w \in Workers : pc[w] = "none" /\ \A v \in Workers : pc[v] = "none" => w <= v
start(input_device_id, opened, input_ok) ==
    IF running
    THEN /\ opened = {} /\ input_ok
         /\ UNCHANGED <<progVars, thrVars, histVars>>
    ELSE LET rate == IF input_device_id \in InputDevices
                     THEN DeviceRate(input_device_id) ELSE DefaultRate
             opens == input_ok /\ input_device_id \in InputDevices
         IN  /\ opened \subseteq (Keys(output_devices) \ streams)
             /\ opens => \E w \in Workers : pc[w] = "none"
             /\ input_device' = input_device_id
             /\ running' = TRUE
             /\ sample_rate' = rate
             /\ latency_buffers' =
                    [d \in DOMAIN latency_buffers \cup Keys(output_devices) |->
                        IF d \in Keys(output_devices) THEN NewBuffer(rate)
                        ELSE latency_buffers[d]]
             /\ streams' = streams \cup opened
             /\ input_stream' = IF opens THEN "open" ELSE input_stream
             /\ pc' = IF opens THEN [pc EXCEPT ![FreeWorker] = "loop"] ELSE pc
             /\ UNCHANGED <<output_devices, connections, latency_offsets,
                            output_levels, input_levels, filters>>
             /\ UNCHANGED <<devs, idx, filter_cfg, l_mix, r_mix, it, left, right, output>>
             /\ UNCHANGED histVars

\* stop(); stop_stream() and close() of a stream that is already closed
\* return quietly (PyAudio's wrapper tests its own flag first)
stop ==
    /\ running' = FALSE
    /\ input_stream' = IF input_stream = "none" THEN "none" ELSE "closed"
    /\ streams' = {}
    /\ stopped' = [w \in Workers |-> stopped[w] \/ Alive(w)]
    /\ stable' = [w \in Workers |-> {}]
    /\ UNCHANGED <<input_device, sample_rate, output_devices, connections,
                   latency_offsets, latency_buffers, output_levels,
                   input_levels, filters>>
    /\ UNCHANGED thrVars
    /\ UNCHANGED <<iters_after_stop, done, wfail, removed, abort, seen, fresh>>

\* add_output(device_id); open_ok: whether p.open of the output stream succeeds
add_output(device_id, open_ok) ==
    IF device_id \notin Keys(output_devices) /\ device_id \in Devices
    THEN /\ output_devices' = Append(output_devices, device_id)
         /\ connections' = Put(connections, device_id,
                               [L |-> EmptyDict, R |-> EmptyDict])
         /\ latency_offsets' = Put(latency_offsets, device_id, 0)
         /\ latency_buffers' = Put(latency_buffers, device_id, NewBuffer(sample_rate))
         /\ output_levels' = Put(output_levels, device_id, "zero")
         /\ filters' = Put(filters, device_id, NewFilter)
         /\ streams' = IF running /\ open_ok THEN streams \cup {device_id} ELSE streams
         /\ UNCHANGED <<running, input_device, sample_rate, input_stream, input_levels>>
         /\ UNCHANGED <<thrVars, histVars>>
    ELSE \* already added, or get_device_info_by_index raised
         /\ open_ok
         /\ UNCHANGED <<progVars, thrVars, histVars>>

remove_output(device_id) ==
    IF device_id \in Keys(output_devices)
    THEN /\ streams' = streams \ {device_id}
         /\ output_devices' = SeqWithout(output_devices, device_id)
         /\ connections' = Del(connections, device_id)
         /\ latency_offsets' = Del(latency_offsets, device_id)
         /\ latency_buffers' = Del(latency_buffers, device_id)
         /\ output_levels' = Del(output_levels, device_id)
         /\ filters' = Del(filters, device_id)
         /\ l_mix' = DetachL(device_id)
         /\ r_mix' = DetachR(device_id)
         /\ stable' = [w \in Workers |-> stable[w] \ {device_id}]
         /\ removed' = [w \in Workers |->
                          removed[w] \/ (InChunk(w) /\ device_id \in Keys(devs[w]))]
         /\ UNCHANGED <<running, input_device, sample_rate, input_stream, input_levels>>
         /\ filter_cfg' = [w \in Workers |->
                IF filter_cfg[w].ref = "live" /\ Cur(w) = device_id
                THEN [filter_cfg[w] EXCEPT !.ref = "gone"] ELSE filter_cfg[w]]
         /\ fresh' = [fresh EXCEPT ![device_id] = {}]
         /\ UNCHANGED <<pc, devs, idx, it, left, right, output>>
         /\ UNCHANGED <<stopped, iters_after_stop, done, wfail, abort, seen>>
    ELSE UNCHANGED <<progVars, thrVars, histVars>>

\* a set_connection_lr that stores a gain of 0
set_connection_lr_keeps_zero(device_id, channel_idx, side, mix_level) ==
    IF device_id \in DOMAIN connections /\ side \in {"L", "R"}
    THEN LET m == connections[device_id][side]
             conn == [connections EXCEPT ![device_id][side] =
                        IF mix_level >= 0 THEN Put(m, channel_idx, mix_level)
                        ELSE IF channel_idx \in DOMAIN m THEN Del(m, channel_idx)
                        ELSE m]
         IN  /\ connections' = conn
             /\ seen' = Observe(device_id, conn)
             /\ UNCHANGED <<running, input_device, sample_rate, input_stream,
                            output_devices, latency_offsets, latency_buffers,
                            output_levels, input_levels, streams, filters>>
             /\ UNCHANGED thrVars
             /\ UNCHANGED <<fresh, stopped, iters_after_stop, done, wfail, stable,
                            removed, abort>>
    ELSE UNCHANGED <<progVars, thrVars, histVars>>
set_connection_lr(device_id, channel_idx, side, mix_level) ==
    IF device_id \in DOMAIN connections /\ side \in {"L", "R"}
    THEN LET m == connections[device_id][side]
             conn == [connections EXCEPT ![device_id][side] =
                        IF mix_level > 0 THEN Put(m, channel_idx, mix_level)
                        ELSE IF channel_idx \in DOMAIN m THEN Del(m, channel_idx)
                        ELSE m]
         IN  /\ connections' = conn
             /\ seen' = Observe(device_id, conn)
             /\ UNCHANGED <<running, input_device, sample_rate, input_stream,
                            output_devices, latency_offsets, latency_buffers,
                            output_levels, input_levels, streams, filters>>
             /\ UNCHANGED thrVars
             /\ UNCHANGED <<fresh, stopped, iters_after_stop, done, wfail, stable,
                            removed, abort>>
    ELSE UNCHANGED <<progVars, thrVars, histVars>>

clear_connections_unguarded(device_id) ==
    /\ connections' = Put(connections, device_id, [L |-> EmptyDict, R |-> EmptyDict])
    /\ l_mix' = DetachL(device_id)
    /\ r_mix' = DetachR(device_id)
    /\ seen' = seen
    /\ UNCHANGED <<running, input_device, sample_rate, input_stream,
                   output_devices, latency_offsets, latency_buffers,
                   output_levels, input_levels, streams, filters>>
    /\ UNCHANGED <<pc, devs, idx, filter_cfg, it, left, right, output>>
    /\ UNCHANGED <<fresh, stopped, iters_after_stop, done, wfail, stable,
                   removed, abort>>
clear_connections(device_id) ==
    IF device_id \in DOMAIN connections
    THEN LET conn == [connections EXCEPT ![device_id] =
                        [L |-> EmptyDict, R |-> EmptyDict]]
         IN  /\ connections' = conn
             /\ l_mix' = DetachL(device_id)
             /\ r_mix' = DetachR(device_id)
             /\ seen' = Observe(device_id, conn)
             /\ UNCHANGED <<running, input_device, sample_rate, input_stream,
                            output_devices, latency_offsets, latency_buffers,
                            output_levels, input_levels, streams, filters>>
             /\ UNCHANGED <<pc, devs, idx, filter_cfg, it, left, right, output>>
             /\ UNCHANGED <<fresh, stopped, iters_after_stop, done, wfail, stable,
                            removed, abort>>
    ELSE UNCHANGED <<progVars, thrVars, histVars>>

\* int((ms / 1000.0) * sample_rate) for whole ms in 0..60 at 44100 and 48000 Hz.
\* ms / 1000.0 is the nearest double, and for these (ms, rate) the double
\* product lies just below the whole number ms * rate / 1000 (9 ms at 48000:
\* 431.99999999999994); int() truncates
FloatShort == {<<9, 48000>>, <<18, 48000>>, <<36, 48000>>}
LatencySamples(ms, rate) ==
    IF <<ms, rate>> \in FloatShort THEN ((ms * rate) \div 1000) - 1
    ELSE (ms * rate) \div 1000
set_latency(device_id, ms) ==
    IF device_id \in DOMAIN latency_offsets
    THEN /\ latency_offsets' = [latency_offsets EXCEPT ![device_id] =
                                    LatencySamples(ms, sample_rate)]
         /\ UNCHANGED <<running, input_device, sample_rate, input_stream,
                        output_devices, connections, latency_buffers,
                        output_levels, input_levels, streams, filters>>
         /\ UNCHANGED <<thrVars, histVars>>
    ELSE UNCHANGED <<progVars, thrVars, histVars>>

\* the clamps of set_filter; the sample rates are even, so nyquist is whole
ClampLow(low_cutoff, rate) == Max(20, Min(low_cutoff, (rate \div 2) - 100))
ClampHigh(low, high_cutoff, rate) == Max(low + 100, Min(high_cutoff, (rate \div 2) - 10))
set_filter(device_id, low_cutoff, high_cutoff) ==
    IF device_id \in DOMAIN filters
    THEN LET low == ClampLow(low_cutoff, sample_rate)
             high == ClampHigh(low, high_cutoff, sample_rate)
         IN  /\ filters' = [filters EXCEPT ![device_id] =
                    [low_cutoff |-> low_cutoff, high_cutoff |-> high_cutoff,
                     highpass |-> [cutoff |-> low, rate |-> sample_rate],
                     lowpass |-> [cutoff |-> high, rate |-> sample_rate],
                     zeroed |-> AllZero, enabled |-> TRUE]]
             /\ fresh' = [fresh EXCEPT ![device_id] = DOMAIN FilterStages]
             /\ UNCHANGED <<running, input_device, sample_rate, input_stream,
                            output_devices, connections, latency_offsets,
                            latency_buffers, output_levels, input_levels, streams>>
             /\ UNCHANGED thrVars
             /\ UNCHANGED <<stopped, iters_after_stop, done, wfail, stable,
                            removed, abort, seen>>
    ELSE UNCHANGED <<progVars, thrVars, histVars>>


\* ------------------------------------------------- _process_audio, by step
\* the locals of one pass of the for loop are dead once it ends
ClearLocals(w) ==
    /\ filter_cfg' = [filter_cfg EXCEPT ![w] = NoCfg]
    /\ l_mix' = [l_mix EXCEPT ![w] = NoRef]
    /\ r_mix' = [r_mix EXCEPT ![w] = NoRef]
    /\ it' = [it EXCEPT ![w] = NoIter]
    /\ left' = [left EXCEPT ![w] = EmptyDict]
    /\ right' = [right EXCEPT ![w] = EmptyDict]
    /\ output' = [output EXCEPT ![w] = "none"]

\* the next pass of `for device_id in list(...)`, or the end of the chunk
NextDevice(w) ==
    /\ IF idx[w] < Len(devs[w])
       THEN /\ pc' = [pc EXCEPT ![w] = "chk"]
            /\ idx' = [idx EXCEPT ![w] = idx[w] + 1]
            /\ devs' = devs
       ELSE /\ pc' = [pc EXCEPT ![w] = "loop"]
            /\ idx' = [idx EXCEPT ![w] = 0]
            /\ devs' = [devs EXCEPT ![w] = << >>]
    /\ ClearLocals(w)
    /\ abort' = abort

\* except Exception as e: print(...); continue
AbortBreaks(w, cause) ==
    /\ pc' = [pc EXCEPT ![w] = "done"]
    /\ idx' = [idx EXCEPT ![w] = 0]
    /\ devs' = [devs EXCEPT ![w] = << >>]
    /\ ClearLocals(w)
    /\ abort' = [abort EXCEPT ![w] = cause]
Abort(w, cause) ==
    /\ pc' = [pc EXCEPT ![w] = "loop"]
    /\ idx' = [idx EXCEPT ![w] = 0]
    /\ devs' = [devs EXCEPT ![w] = << >>]
    /\ ClearLocals(w)
    /\ abort' = [abort EXCEPT ![w] = cause]

\* the inner handler around streams[device_id].write: except: pass
WriteExceptPropagates(w) == Abort(w, "write")
WriteExcept(w) == NextDevice(w)

Goto(w, to) ==
    /\ pc' = [pc EXCEPT ![w] = to]
    /\ abort' = abort

\* while self.running:
pa_loop(w) ==
    /\ pc[w] = "loop"
    /\ pc' = [pc EXCEPT ![w] = IF running THEN "read" ELSE "done"]
    /\ iters_after_stop' = [iters_after_stop EXCEPT ![w] =
            IF running /\ stopped[w] THEN Min(@ + 1, 2) ELSE @]
    /\ done' = [done EXCEPT ![w] = {}]
    /\ wfail' = [wfail EXCEPT ![w] = {}]
    /\ stable' = [stable EXCEPT ![w] = {}]
    /\ removed' = [removed EXCEPT ![w] = FALSE]
    /\ abort' = [abort EXCEPT ![w] = "none"]
    /\ seen' = [seen EXCEPT ![w] = {}]
    /\ UNCHANGED <<devs, idx, filter_cfg, l_mix, r_mix, it, left, right, output>>
    /\ UNCHANGED <<progVars, fresh, stopped>>

\* data = self.input_stream.read(...) ... self.input_levels[i] = ...
pa_read(w, read_ok) ==
    /\ pc[w] = "read"
    /\ IF input_stream = "open" /\ read_ok
       THEN /\ input_levels' = "peak"
            /\ Goto(w, "devs")
            /\ UNCHANGED <<devs, idx, filter_cfg, l_mix, r_mix, it, left, right, output>>
       ELSE /\ Abort(w, "read")
            /\ UNCHANGED input_levels
    /\ UNCHANGED <<running, input_device, sample_rate, input_stream,
                   output_devices, connections, latency_offsets,
                   latency_buffers, output_levels, streams, filters>>
    /\ UNCHANGED <<fresh, stopped, iters_after_stop, done, wfail, stable, removed, seen>>

\* for device_id in list(self.output_devices.keys()):
pa_devs(w) ==
    /\ pc[w] = "devs"
    /\ IF Len(output_devices) = 0
       THEN /\ Goto(w, "loop")
            /\ UNCHANGED <<devs, idx>>
       ELSE /\ Goto(w, "chk")
            /\ devs' = [devs EXCEPT ![w] = output_devices]
            /\ idx' = [idx EXCEPT ![w] = 1]
    /\ filter_cfg' = filter_cfg
    /\ stable' = [stable EXCEPT ![w] = Keys(output_devices) \cap streams]
    /\ UNCHANGED <<l_mix, r_mix, it, left, right, output>>
    /\ UNCHANGED progVars
    /\ UNCHANGED <<fresh, stopped, iters_after_stop, done, wfail, removed, seen>>

\* if device_id not in self.streams: continue
pa_chk(w) ==
    /\ pc[w] = "chk"
    /\ IF Cur(w) \notin streams
       THEN NextDevice(w)
       ELSE /\ Goto(w, "get_l")
            /\ UNCHANGED <<devs, idx, filter_cfg, l_mix, r_mix, it, left, right, output>>
    /\ UNCHANGED progVars
    /\ UNCHANGED <<fresh, stopped, iters_after_stop, done, wfail, stable, removed, seen>>

\* l_mix = self.connections[device_id]['L']
pa_get_l(w) ==
    /\ pc[w] = "get_l"
    /\ IF Cur(w) \in DOMAIN connections
       THEN /\ Goto(w, "get_r")
            /\ l_mix' = [l_mix EXCEPT ![w] = LiveRef]
            /\ seen' = [seen EXCEPT ![w] =
                    {<<connections[Cur(w)]["L"], connections[Cur(w)]["R"]>>}]
            /\ UNCHANGED <<devs, idx, filter_cfg, r_mix, it, left, right, output>>
       ELSE /\ Abort(w, "KeyError")
            /\ UNCHANGED seen
    /\ UNCHANGED progVars
    /\ UNCHANGED <<fresh, stopped, iters_after_stop, done, wfail, stable, removed>>

\* r_mix = self.connections[device_id]['R']
pa_get_r(w) ==
    /\ pc[w] = "get_r"
    /\ IF Cur(w) \in DOMAIN connections
       THEN /\ Goto(w, "iter_l")
            /\ r_mix' = [r_mix EXCEPT ![w] = LiveRef]
            /\ UNCHANGED <<devs, idx, filter_cfg, l_mix, it, left, right, output>>
       ELSE Abort(w, "KeyError")
    /\ UNCHANGED progVars
    /\ UNCHANGED <<fresh, stopped, iters_after_stop, done, wfail, stable, removed, seen>>

\* the dict a worker's reference designates now
Deref(ref, d, side) == IF ref.live THEN connections[d][side] ELSE ref.val

\* left = np.zeros(...); for ch_idx, mix_level in l_mix.items(): the iterator is
\* created and remembers the dict's size
pa_iter_l(w) ==
    /\ pc[w] = "iter_l"
    /\ Goto(w, "next_l")
    /\ it' = [it EXCEPT ![w] =
            [size |-> Cardinality(DOMAIN Deref(l_mix[w], Cur(w), "L")),
             visited |-> {}]]
    /\ left' = [left EXCEPT ![w] = EmptyDict]
    /\ UNCHANGED <<devs, idx, filter_cfg, l_mix, r_mix, right, output>>
    /\ UNCHANGED <<progVars, fresh, stopped, iters_after_stop, done, wfail, stable,
                   removed, seen>>

\* one next() of that iterator and, for an entry, left += audio[:, ch_idx] * mix_level
pa_next_l(w) ==
    /\ pc[w] = "next_l"
    /\ LET m == Deref(l_mix[w], Cur(w), "L")
           rest == DOMAIN m \ it[w].visited
       IN  IF Cardinality(DOMAIN m) # it[w].size
           THEN Abort(w, "RuntimeError")
           ELSE IF rest = {}
           THEN /\ Goto(w, "iter_r")
                /\ UNCHANGED <<devs, idx, filter_cfg, l_mix, r_mix, it, left, right, output>>
           ELSE \E ch \in rest :
                   IF ch \notin (0 - InputChannels)..(InputChannels - 1)
                   THEN Abort(w, "IndexError")
                   ELSE /\ Goto(w, "next_l")
                        /\ left' = [left EXCEPT ![w] = Put(@, ch, m[ch])]
                        /\ it' = [it EXCEPT ![w].visited = @ \cup {ch}]
                        /\ UNCHANGED <<devs, idx, filter_cfg, l_mix, r_mix, right, output>>
    /\ UNCHANGED <<progVars, fresh, stopped, iters_after_stop, done, wfail, stable,
                   removed, seen>>

\* right = np.zeros(...); for ch_idx, mix_level in r_mix.items():
pa_iter_r(w) ==
    /\ pc[w] = "iter_r"
    /\ Goto(w, "next_r")
    /\ it' = [it EXCEPT ![w] =
            [size |-> Cardinality(DOMAIN Deref(r_mix[w], Cur(w), "R")),
             visited |-> {}]]
    /\ right' = [right EXCEPT ![w] = EmptyDict]
    /\ UNCHANGED <<devs, idx, filter_cfg, l_mix, r_mix, left, output>>
    /\ UNCHANGED <<progVars, fresh, stopped, iters_after_stop, done, wfail, stable,
                   removed, seen>>

pa_next_r(w) ==
    /\ pc[w] = "next_r"
    /\ LET m == Deref(r_mix[w], Cur(w), "R")
           rest == DOMAIN m \ it[w].visited
       IN  IF Cardinality(DOMAIN m) # it[w].size
           THEN Abort(w, "RuntimeError")
           ELSE IF rest = {}
           THEN /\ Goto(w, "filt")
                /\ UNCHANGED <<devs, idx, filter_cfg, l_mix, r_mix, it, left, right, output>>
           ELSE \E ch \in rest :
                   IF ch \notin (0 - InputChannels)..(InputChannels - 1)
                   THEN Abort(w, "IndexError")
                   ELSE /\ Goto(w, "next_r")
                        /\ right' = [right EXCEPT ![w] = Put(@, ch, m[ch])]
                        /\ it' = [it EXCEPT ![w].visited = @ \cup {ch}]
                        /\ UNCHANGED <<devs, idx, filter_cfg, l_mix, r_mix, left, output>>
    /\ UNCHANGED <<progVars, fresh, stopped, iters_after_stop, done, wfail, stable,
                   removed, seen>>

\* if device_id in self.filters and self.filters[device_id]['enabled']:
\* filter_cfg = self.filters[device_id]; else output = np.column_stack(...)
pa_filt(w) ==
    /\ pc[w] = "filt"
    /\ IF Cur(w) \in DOMAIN filters /\ filters[Cur(w)].enabled
       THEN /\ Goto(w, "proc")
            /\ filter_cfg' = [filter_cfg EXCEPT ![w] = [ref |-> "live", stage |-> 1]]
            /\ output' = output
       ELSE /\ Goto(w, "lat")
            /\ filter_cfg' = filter_cfg
            /\ output' = [output EXCEPT ![w] = "mixed"]
    /\ UNCHANGED <<devs, idx, l_mix, r_mix, it, left, right>>
    /\ UNCHANGED <<progVars, fresh, stopped, iters_after_stop, done, wfail, stable,
                   removed, seen>>

\* BiquadFilter.process, lines 85-87: the coefficients and z1, z2 of the stage
\* are copied into locals; the loop over the samples follows
pa_proc(w) ==
    /\ pc[w] = "proc"
    /\ Goto(w, "proc_end")
    /\ fresh' = IF filter_cfg[w].ref = "live"
                THEN [fresh EXCEPT ![Cur(w)] = @ \ {filter_cfg[w].stage}]
                ELSE fresh
    /\ UNCHANGED <<devs, idx, filter_cfg, l_mix, r_mix, it, left, right, output>>
    /\ UNCHANGED <<progVars, stopped, iters_after_stop, done, wfail, stable,
                   removed, seen>>

\* BiquadFilter.process, lines 98-99: self.z1 = z1; self.z2 = z2, the state
\* after this chunk's samples (not zero unless the chunk is silent); then the
\* next stage, or output = np.column_stack([left, right]) after the last
pa_proc_end(w) ==
    /\ pc[w] = "proc_end"
    /\ filters' = IF filter_cfg[w].ref = "live"
                  THEN [filters EXCEPT ![Cur(w)].zeroed[filter_cfg[w].stage] = FALSE]
                  ELSE filters
    /\ IF filter_cfg[w].stage < Len(FilterStages)
       THEN /\ Goto(w, "proc")
            /\ filter_cfg' = [filter_cfg EXCEPT ![w].stage = @ + 1]
            /\ output' = output
       ELSE /\ Goto(w, "lat")
            /\ filter_cfg' = filter_cfg
            /\ output' = [output EXCEPT ![w] = "filtered"]
    /\ UNCHANGED <<devs, idx, l_mix, r_mix, it, left, right>>
    /\ UNCHANGED <<running, input_device, sample_rate, input_stream,
                   output_devices, connections, latency_offsets,
                   latency_buffers, output_levels, input_levels, streams>>
    /\ UNCHANGED <<fresh, stopped, iters_after_stop, done, wfail, stable, removed, seen>>

\* the delay line emits once len(buffer) >= CHUNK_SIZE * 2 + latency
DelayReadyStrict(len, chunk, latency) == len > chunk * 2 + latency
DelayReady(len, chunk, latency) == len >= chunk * 2 + latency
\* buffer.extend of one interleaved chunk on a deque with maxlen
Extended(buffer, chunk) == Min(buffer.len + chunk * 2, buffer.maxlen)

\* latency = self.latency_offsets[device_id]; buffer = self.latency_buffers[device_id];
\* if latency > 0: extend, then emit the oldest chunk or silence
pa_lat(w) ==
    /\ pc[w] = "lat"
    /\ IF Cur(w) \in DOMAIN latency_offsets /\ Cur(w) \in DOMAIN latency_buffers
       THEN LET latency == latency_offsets[Cur(w)]
                buffer == latency_buffers[Cur(w)]
                n == Extended(buffer, CHUNK_SIZE)
            IN  /\ Goto(w, "levels")
                /\ IF latency > 0
                   THEN IF DelayReady(n, CHUNK_SIZE, latency)
                        THEN /\ latency_buffers' = [latency_buffers EXCEPT
                                    ![Cur(w)].len = n - CHUNK_SIZE * 2]
                             /\ output' = [output EXCEPT ![w] = "delayed"]
                        ELSE /\ latency_buffers' = [latency_buffers EXCEPT
                                    ![Cur(w)].len = n]
                             /\ output' = [output EXCEPT ![w] = "silence"]
                   ELSE UNCHANGED <<latency_buffers, output>>
                /\ UNCHANGED <<devs, idx, filter_cfg, l_mix, r_mix, it, left, right>>
       ELSE /\ Abort(w, "KeyError")
            /\ UNCHANGED latency_buffers
    /\ UNCHANGED <<running, input_device, sample_rate, input_stream,
                   output_devices, connections, latency_offsets,
                   output_levels, input_levels, streams, filters>>
    /\ UNCHANGED <<fresh, stopped, iters_after_stop, done, wfail, stable, removed, seen>>

\* self.output_levels[device_id] = [...]
pa_levels(w) ==
    /\ pc[w] = "levels"
    /\ Goto(w, "write")
    /\ output_levels' = Put(output_levels, Cur(w), "peak")
    /\ UNCHANGED <<devs, idx, filter_cfg, l_mix, r_mix, it, left, right, output>>
    /\ UNCHANGED <<running, input_device, sample_rate, input_stream,
                   output_devices, connections, latency_offsets,
                   latency_buffers, input_levels, streams, filters>>
    /\ UNCHANGED <<fresh, stopped, iters_after_stop, done, wfail, stable, removed, seen>>

\* try: self.streams[device_id].write(output.tobytes())  except: pass
pa_write(w, write_ok) ==
    /\ pc[w] = "write"
    /\ IF Cur(w) \in streams /\ write_ok
       THEN /\ NextDevice(w)
            /\ done' = [done EXCEPT ![w] = @ \cup {Cur(w)}]
            /\ wfail' = wfail
       ELSE /\ WriteExcept(w)
            /\ done' = done
            /\ wfail' = [wfail EXCEPT ![w] = @ \cup {Cur(w)}]
    /\ UNCHANGED progVars
    /\ UNCHANGED <<fresh, stopped, iters_after_stop, stable, removed, seen>>

\* ------------------------------------------------------- the specification
Call == ops < MaxOps /\ ops' = ops + 1 /\ UNCHANGED <<dlVars, mxVars>>
Step == UNCHANGED <<webVars, ops, dlVars, mxVars>>

CallStart ==
    \E dev \in InputDevices \cup {BadDevice}, opened \in SUBSET Devices, ok \in BOOLEAN :
        Call /\ start(dev, opened, ok) /\ UNCHANGED webVars
CallStop == Call /\ stop /\ UNCHANGED webVars
CallAddOutput ==
    \E d \in Devices \cup {BadDevice}, ok \in BOOLEAN :
        Call /\ add_output(d, ok) /\ UNCHANGED webVars
CallRemoveOutput == \E d \in Devices : Call /\ remove_output(d) /\ UNCHANGED webVars
CallSetConnectionLr ==
    \E d \in Devices, ch \in Channels, side \in Sides, g \in Gains :
        Call /\ set_connection_lr(d, ch, side, g) /\ UNCHANGED webVars
CallClearConnections == \E d \in Devices : Call /\ clear_connections(d) /\ UNCHANGED webVars
CallSetLatency ==
    \E d \in Devices, ms \in LatencyMs : Call /\ set_latency(d, ms) /\ UNCHANGED webVars
CallSetFilter ==
    \E d \in Devices, band \in FilterBands :
        Call /\ set_filter(d, band[1], band[2]) /\ UNCHANGED webVars

WorkerLoop == \E w \in Workers : pa_loop(w) /\ Step
WorkerRead == \E w \in Workers, ok \in BOOLEAN : pa_read(w, ok) /\ Step
WorkerDevs == \E w \in Workers : pa_devs(w) /\ Step
WorkerChk == \E w \in Workers : pa_chk(w) /\ Step
WorkerGetL == \E w \in Workers : pa_get_l(w) /\ Step
WorkerGetR == \E w \in Workers : pa_get_r(w) /\ Step
WorkerIterL == \E w \in Workers : pa_iter_l(w) /\ Step
WorkerNextL == \E w \in Workers : pa_next_l(w) /\ Step
WorkerIterR == \E w \in Workers : pa_iter_r(w) /\ Step
WorkerNextR == \E w \in Workers : pa_next_r(w) /\ Step
WorkerFilt == \E w \in Workers : pa_filt(w) /\ Step
WorkerProc == \E w \in Workers : pa_proc(w) /\ Step
WorkerProcEnd == \E w \in Workers : pa_proc_end(w) /\ Step
WorkerLat == \E w \in Workers : pa_lat(w) /\ Step
WorkerLevels == \E w \in Workers : pa_levels(w) /\ Step
WorkerWrite == \E w \in Workers, ok \in BOOLEAN : pa_write(w, ok) /\ Step

Worker ==
    \/ WorkerLoop \/ WorkerRead \/ WorkerDevs \/ WorkerChk \/ WorkerGetL
    \/ WorkerGetR \/ WorkerIterL \/ WorkerNextL \/ WorkerIterR \/ WorkerNextR
    \/ WorkerFilt \/ WorkerProc \/ WorkerProcEnd \/ WorkerLat \/ WorkerLevels \/ WorkerWrite

Next ==
    \/ CallStart \/ CallStop \/ CallAddOutput \/ CallRemoveOutput
    \/ CallSetConnectionLr \/ CallClearConnections \/ CallSetLatency
    \/ CallSetFilter
    \/ Worker

Spec == Init /\ [][Next]_vars



\* ----------------------------------------------------------- router_web.py
RECURSIVE Gcd(_, _)
Gcd(a, b) == IF b = 0 THEN a ELSE Gcd(b, a % b)
\* v / self.sample_rate * 1000, as the fraction in lowest terms
LatencyMsOf(v, rate) ==
    LET g == Gcd(v * 1000, rate) IN <<(v * 1000) \div g, rate \div g>>

\* AudioRouter.get_state
get_state ==
    [running |-> running,
     input_device |-> input_device,
     output_devices |-> output_devices,
     connections |-> connections,
     latency_offsets |-> [d \in DOMAIN latency_offsets |->
                            LatencyMsOf(latency_offsets[d], sample_rate)],
     input_levels |-> input_levels,
     output_levels |-> output_levels]

\* the routing state: destinations, gain maps, filter configuration and
\* enabled flag, and latency as get_state reports it
RoutingView ==
    [valid |-> TRUE,
     destinations |-> get_state.output_devices,
     connections |-> get_state.connections,
     filters |-> [d \in DOMAIN filters |->
                    [low_cutoff |-> filters[d].low_cutoff,
                     high_cutoff |-> filters[d].high_cutoff,
                     enabled |-> filters[d].enabled]],
     latency_ms |-> get_state.latency_offsets]

Request == ops < MaxRequests /\ ops' = ops + 1 /\ UNCHANGED <<dlVars, mxVars>>
NoRouterCall == UNCHANGED <<progVars, thrVars, histVars>>

\* @app.get("/api/devices")
api_get_devices ==
    /\ Request
    /\ router' = "AudioRouter"
    /\ request' = [endpoint |-> "/api/devices"]
    /\ response' = "devices"
    /\ UNCHANGED <<progVars, thrVars, histVars, at_stop>>

\* @app.post("/api/start"): an exception of router.start leaves the handler
start_router ==
    \E dev \in InputDevices \cup {BadDevice}, opened \in SUBSET Devices, ok \in BOOLEAN :
        /\ Request
        /\ router' = "AudioRouter"
        /\ start(dev, opened, ok)
        /\ request' = [endpoint |-> "/api/start", input_device_id |-> dev]
        /\ response' = IF running \/ (ok /\ dev \in InputDevices)
                       THEN "started" ELSE "error"
        /\ at_stop' = NoView

\* @app.post("/api/stop")
stop_router ==
    /\ Request
    /\ IF router = "AudioRouter"
       THEN stop /\ at_stop' = RoutingView
       ELSE NoRouterCall /\ at_stop' = at_stop
    /\ request' = [endpoint |-> "/api/stop"]
    /\ response' = "stopped"
    /\ UNCHANGED router

\* @app.post("/api/output/add")
api_add_output ==
    \E d \in Devices \cup {BadDevice}, ok \in BOOLEAN :
        /\ Request
        /\ IF router = "AudioRouter" THEN add_output(d, ok) ELSE ok /\ NoRouterCall
        /\ request' = [endpoint |-> "/api/output/add", device_id |-> d]
        /\ response' = IF router = "AudioRouter" /\ d = BadDevice
                       THEN "error" ELSE "added"
        /\ at_stop' = NoView
        /\ UNCHANGED router

\* @app.post("/api/output/remove")
api_remove_output ==
    \E d \in Devices :
        /\ Request
        /\ IF router = "AudioRouter" THEN remove_output(d) ELSE NoRouterCall
        /\ request' = [endpoint |-> "/api/output/remove", device_id |-> d]
        /\ response' = "removed"
        /\ at_stop' = NoView
        /\ UNCHANGED router

\* @app.post("/api/connection/set_lr")
api_set_connection_lr ==
    \E d \in Devices, ch \in Channels, side \in Sides, g \in Gains :
        /\ Request
        /\ IF router = "AudioRouter" THEN set_connection_lr(d, ch, side, g)
           ELSE NoRouterCall
        /\ request' = [endpoint |-> "/api/connection/set_lr", device_id |-> d,
                       channel_idx |-> ch, side |-> side, mix_level |-> g]
        /\ response' = "set"
        /\ at_stop' = NoView
        /\ UNCHANGED router

\* @app.post("/api/connection/clear")
api_clear_connections ==
    \E d \in Devices :
        /\ Request
        /\ IF router = "AudioRouter" THEN clear_connections(d) ELSE NoRouterCall
        /\ request' = [endpoint |-> "/api/connection/clear", device_id |-> d]
        /\ response' = "cleared"
        /\ at_stop' = NoView
        /\ UNCHANGED router

\* @app.post("/api/latency/set")
api_set_latency ==
    \E d \in Devices, ms \in LatencyMs :
        /\ Request
        /\ IF router = "AudioRouter" THEN set_latency(d, ms) ELSE NoRouterCall
        /\ request' = [endpoint |-> "/api/latency/set", device_id |-> d,
                       latency_ms |-> ms]
        /\ response' = "set"
        /\ at_stop' = NoView
        /\ UNCHANGED router

\* @app.get("/api/state")
api_get_state ==
    /\ Request
    /\ request' = [endpoint |-> "/api/state"]
    /\ response' = IF router = "AudioRouter" THEN "state" ELSE "{}"
    /\ UNCHANGED <<progVars, thrVars, histVars, router, at_stop>>

\* AudioRouter.set_filter has no handler: a control-path caller that holds
\* the router calls the method, which returns None
call_set_filter ==
    \E d \in Devices, band \in FilterBands :
        /\ Request
        /\ router = "AudioRouter"
        /\ set_filter(d, band[1], band[2])
        /\ request' = [endpoint |-> "AudioRouter.set_filter", device_id |-> d,
                       low_cutoff |-> band[1], high_cutoff |-> band[2]]
        /\ response' = "None"
        /\ at_stop' = NoView
        /\ UNCHANGED router

NextWeb ==
    \/ api_get_devices \/ start_router \/ stop_router \/ api_add_output
    \/ api_remove_output \/ api_set_connection_lr \/ api_clear_connections
    \/ api_set_latency \/ api_get_state \/ call_set_filter

InitWeb == InitRouter /\ InitIdle /\ router = "None" /\ InitNoDelay /\ InitNoMix
SpecWeb == InitWeb /\ [][NextWeb]_vars

\* ------------------------------------------------ the mix on real samples
\* audio[:, ch_idx]: a negative index counts from the last channel
Column(audio, ch_idx) ==
    [f \in DOMAIN audio |->
        audio[f][IF ch_idx < 0 THEN ch_idx + InputChannels + 1 ELSE ch_idx + 1]]
\* a mix that keeps only the channel added last
MixStepAssign(acc, col, mix_level) == [f \in DOMAIN acc |-> col[f] * mix_level]
\* left += audio[:, ch_idx] * mix_level
MixStep(acc, col, mix_level) == [f \in DOMAIN acc |-> acc[f] + col[f] * mix_level]
\* left = np.zeros(CHUNK_SIZE); for ch_idx, mix_level in l_mix.items(): ...
RECURSIVE MixLoop(_, _, _, _)
MixLoop(acc, audio, m, todo) ==
    IF todo = {} THEN acc
    ELSE LET ch_idx == CHOOSE c \in todo : \A o \in todo : c <= o
         IN  MixLoop(MixStep(acc, Column(audio, ch_idx), m[ch_idx]),
                     audio, m, todo \ {ch_idx})
MixBus(audio, m) == MixLoop([f \in DOMAIN audio |-> 0], audio, m, DOMAIN m)
\* audio[:, ch_idx] raises IndexError outside [-6, 6)
IndexOk(m) ==
    \A ch_idx \in DOMAIN m : ch_idx \in (0 - InputChannels)..(InputChannels - 1)

\* one pass of lines 329-383 for destination d with the filter disabled and
\* latency 0, no control call in between: mix L, mix R, column_stack, write
MixChunk ==
    \E d \in ConfigDevices, v \in {0, 100} :
        /\ running /\ d \in streams /\ d \in DOMAIN connections
        /\ d \in DOMAIN filters /\ ~filters[d].enabled
        /\ d \in DOMAIN latency_offsets /\ latency_offsets[d] = 0
        /\ LET audio == [f \in 1..MixFrames |->
                            [c \in 1..InputChannels |-> v + 10 * f + c]]
               l_map == connections[d]["L"]
               r_map == connections[d]["R"]
           IN  /\ mx_audio' = audio
               /\ IF IndexOk(l_map) /\ IndexOk(r_map)
                  THEN /\ mx_status' = "written"
                       /\ mx_output' = [f \in 1..MixFrames |->
                                <<MixBus(audio, l_map)[f], MixBus(audio, r_map)[f]>>]
                  ELSE /\ mx_status' = "IndexError"
                       /\ mx_output' = << >>
        /\ request' = [endpoint |-> "AudioRouter._process_audio", device_id |-> d]
        /\ response' = "None"
        /\ UNCHANGED <<progVars, thrVars, histVars, router, at_stop, ops, dlVars>>

\* the control calls around it; the chunk of an earlier pass is gone
MixControl ==
    /\ response' = "None"
    /\ mx_audio' = << >>
    /\ mx_output' = << >>
    /\ mx_status' = "none"
    /\ UNCHANGED <<router, at_stop, ops, dlVars>>
MixStart ==
    /\ start(0, {}, TRUE)
    /\ request' = [endpoint |-> "AudioRouter.start", input_device_id |-> 0]
    /\ MixControl
MixAddOutput ==
    \E d \in ConfigDevices :
        /\ add_output(d, TRUE)
        /\ request' = [endpoint |-> "AudioRouter.add_output", device_id |-> d]
        /\ MixControl
MixSetConnectionLr ==
    \E d \in ConfigDevices, ch \in MixChannels, side \in Sides, g \in MixGains :
        /\ set_connection_lr(d, ch, side, g)
        /\ request' = [endpoint |-> "AudioRouter.set_connection_lr",
                       device_id |-> d, channel_idx |-> ch, side |-> side,
                       mix_level |-> g]
        /\ MixControl
MixClearConnections ==
    \E d \in ConfigDevices :
        /\ clear_connections(d)
        /\ request' = [endpoint |-> "AudioRouter.clear_connections", device_id |-> d]
        /\ MixControl
NextMix ==
    \/ MixStart \/ MixAddOutput \/ MixSetConnectionLr \/ MixClearConnections
    \/ MixChunk
SpecMix == Init /\ [][NextMix]_vars

\* ------------------------------------- the numbers of the configuration
\* set_latency and set_filter called by a control-path caller over a range of
\* arguments, at the default rate and at the rate of either input device
ConfigStart ==
    \E dev \in InputDevices :
        /\ start(dev, {}, TRUE)
        /\ request' = [endpoint |-> "AudioRouter.start", input_device_id |-> dev]
        /\ response' = "None"
        /\ UNCHANGED <<router, at_stop, ops, dlVars, mxVars>>
ConfigAddOutput ==
    \E d \in ConfigDevices :
        /\ add_output(d, TRUE)
        /\ request' = [endpoint |-> "AudioRouter.add_output", device_id |-> d]
        /\ response' = "None"
        /\ UNCHANGED <<router, at_stop, ops, dlVars, mxVars>>
ConfigSetLatency ==
    \E d \in ConfigDevices, ms \in ConfigMs :
        /\ set_latency(d, ms)
        /\ request' = [endpoint |-> "AudioRouter.set_latency", device_id |-> d,
                       latency_ms |-> ms]
        /\ response' = "None"
        /\ UNCHANGED <<router, at_stop, ops, dlVars, mxVars>>
ConfigSetFilter ==
    \E d \in ConfigDevices, low \in ConfigLows, high \in ConfigHighs :
        /\ set_filter(d, low, high)
        /\ request' = [endpoint |-> "AudioRouter.set_filter", device_id |-> d,
                       low_cutoff |-> low, high_cutoff |-> high]
        /\ response' = "None"
        /\ UNCHANGED <<router, at_stop, ops, dlVars, mxVars>>
NextConfig == ConfigStart \/ ConfigAddOutput \/ ConfigSetLatency \/ ConfigSetFilter
SpecConfig == Init /\ [][NextConfig]_vars

\* ------------------------------------------ the delay line on real samples
Silence(chunk) == [j \in 1..(chunk * 2) |-> 0]
\* deque.extend on a deque with maxlen: the oldest samples fall off
DequeExtend(buffer, maxlen, xs) ==
    LET all == buffer \o xs
    IN  IF Len(all) > maxlen THEN SubSeq(all, Len(all) - maxlen + 1, Len(all))
        ELSE all
\* a delay line that forgets the chunk it answered with silence
delay_line_forgets(buffer, maxlen, latency, out, chunk) ==
    IF latency > 0
    THEN LET b == DequeExtend(buffer, maxlen, out)
         IN  IF DelayReady(Len(b), chunk, latency)
             THEN [buffer |-> SubSeq(b, chunk * 2 + 1, Len(b)),
                   output |-> SubSeq(b, 1, chunk * 2)]
             ELSE [buffer |-> buffer, output |-> Silence(chunk)]
    ELSE [buffer |-> buffer, output |-> out]
\* lines 361-373 for one chunk `out` of `chunk` frames, interleaved
delay_line(buffer, maxlen, latency, out, chunk) ==
    IF latency > 0
    THEN LET b == DequeExtend(buffer, maxlen, out)
         IN  IF DelayReady(Len(b), chunk, latency)
             THEN [buffer |-> SubSeq(b, chunk * 2 + 1, Len(b)),
                   output |-> SubSeq(b, 1, chunk * 2)]
             ELSE [buffer |-> b, output |-> Silence(chunk)]
    ELSE [buffer |-> buffer, output |-> out]

\* one chunk through the delay line; its samples are all different and not 0
FeedChunk ==
    /\ Len(dl_in) < MaxChunks
    /\ \E v \in {1, 2} :
        LET k == Len(dl_in) + 1
            out == [j \in 1..(DelayFrames * 2) |-> 100 * k + 10 * j + v]
            r == delay_line(dl_buffer, dl_maxlen, dl_latency, out, DelayFrames)
        IN  /\ dl_in' = Append(dl_in, out)
            /\ dl_out' = Append(dl_out, r.output)
            /\ dl_buffer' = r.buffer
            /\ dl_dropped' = (dl_dropped \/
                    (dl_latency > 0 /\ Len(dl_buffer) + Len(out) > dl_maxlen))
    /\ UNCHANGED <<dl_latency, dl_maxlen, dl_set_at>>
    /\ UNCHANGED <<progVars, thrVars, histVars, webVars, ops, mxVars>>

InitDelay ==
    /\ InitRouter /\ InitIdle /\ router = "AudioRouter" /\ InitNoMix
    /\ dl_latency \in 0..MaxLatency
    /\ \E rate \in DelayRates : dl_maxlen = NewBuffer(rate).maxlen
    /\ dl_buffer = << >>
    /\ dl_in = << >>
    /\ dl_out = << >>
    /\ dl_dropped = FALSE
    /\ dl_set_at = 0
NextDelay == FeedChunk
SpecDelay == InitDelay /\ [][NextDelay]_vars

\* the same delay line while set_latency runs between chunks: the worker reads
\* latency_offsets[device_id] once per chunk (line 358), so a call takes effect
\* with the next chunk; the deque is left as it is
RetuneLatency ==
    /\ ops < MaxRetunes
    /\ ops' = ops + 1
    /\ \E latency \in 0..MaxLatency : dl_latency' = latency
    /\ dl_set_at' = Len(dl_in)
    /\ UNCHANGED <<dl_buffer, dl_maxlen, dl_in, dl_out, dl_dropped>>
    /\ UNCHANGED <<progVars, thrVars, histVars, webVars, mxVars>>
NextLatency == FeedChunk \/ RetuneLatency
SpecLatency == InitDelay /\ [][NextLatency]_vars

\* ------------------------------------------------------------------ claims
CeilDiv(a, b) == (a + b - 1) \div b

\* the configuration requests of the control path, one that names no current
\* destination or no bus, and the answer each handler gives a valid request
ConfigEndpoints == {"/api/output/remove", "/api/connection/set_lr",
                    "/api/connection/clear", "/api/latency/set",
                    "AudioRouter.set_filter"}
UnknownTarget(req) ==
    /\ req.endpoint \in ConfigEndpoints
    /\ \/ req.device_id \notin Keys(output_devices)
       \/ (req.endpoint = "/api/connection/set_lr" /\ req.side \notin {"L", "R"})

\* the answer a valid request of each kind gets: the handler's status, or
\* None from a bare method call
OkStatus(endpoint) ==
    CASE endpoint = "/api/output/remove" -> "removed"
      [] endpoint = "/api/connection/set_lr" -> "set"
      [] endpoint = "/api/connection/clear" -> "cleared"
      [] endpoint = "/api/latency/set" -> "set"
      [] OTHER -> "None"

\* C1: at every moment at most one _process_audio worker loop is executing,
\* after any interleaving of start() and stop() calls.
C1_AtMostOneWorker == Cardinality({w \in Workers : Alive(w)}) <= 1

\* C2: when remove_output(d) ran during a chunk whose snapshot holds d, the
\* worker is back at its loop and every other destination that stayed active
\* with an open stream through that chunk has had its output computed and
\* its write attempted in that chunk.
C2_RemovalSparesOthers ==
    \A w \in Workers :
        (pc[w] = "loop" /\ removed[w] /\ abort[w] \in {"none", "KeyError"})
            => stable[w] \subseteq (done[w] \cup wfail[w])

\* C3: the L and R gain maps a worker has mixed one destination's chunk with
\* are together that destination's gain maps as they were at one instant of
\* the mix: no concurrent set_connection_lr or clear_connections is applied
\* in part.
C3_GainMapsFromOneInstant ==
    \A w \in Workers : pc[w] = "filt" => <<left[w], right[w]>> \in seen[w]

\* C4: a worker that was running when stop() was called begins at most one
\* further chunk iteration, whatever control calls follow.
C4_ExitsAfterStop == \A w \in Workers : iters_after_stop[w] <= 1

\* C5: stop() followed by start() leaves the routing state as it was before
\* the stop: destinations, gain maps, filter configuration and enabled flag,
\* and every destination's latency, also when the sample rate changes.
C5_RestartKeepsRouting ==
    [][(at_stop.valid /\ ops' = ops + 1 /\ request'.endpoint = "/api/start"
            /\ response' = "started")
        => RoutingView' = at_stop]_vars

\* C6: a failed open of the input device in start() from Stopped leaves the
\* session Stopped (running False, no worker); a failed open of the output
\* stream in add_output() while Running leaves the session Running and the
\* destination out of the routing state.
C6_OpenFailureKeepsState ==
    [][/\ (\E dev \in InputDevices \cup {BadDevice}, opened \in SUBSET Devices :
              ~running /\ start(dev, opened, FALSE))
          => (~running' /\ \A w \in Workers : ~Alive(w)')
       /\ \A d \in Devices :
              (running /\ d \notin Keys(output_devices) /\ add_output(d, FALSE))
              => (running' /\ d \notin Keys(output_devices')
                           /\ d \notin DOMAIN connections')]_vars

\* C7: a configuration request that names an unknown destination, or a bus
\* other than L and R, is answered as rejected and changes no field of the
\* router.
C7_UnknownTargetRejected ==
    [][(ops' = ops + 1 /\ UnknownTarget(request'))
        => (response' = "rejected" /\ UNCHANGED progVars)]_vars
\* C7 as amended: such a request changes no field of the router, and its
\* caller gets the answer a valid request gets, not a rejection.
C7_UnknownTargetIgnored ==
    [][(ops' = ops + 1 /\ UnknownTarget(request'))
        => (response' = OkStatus(request'.endpoint) /\ UNCHANGED progVars)]_vars
\* a latency request for a destination the running router does not have was
\* answered
C7_UnknownLatencyAnswered ==
    /\ router = "AudioRouter"
    /\ request.endpoint = "/api/latency/set"
    /\ request.latency_ms > 0
    /\ request.device_id \notin DOMAIN latency_offsets
    /\ output_devices # << >>
    /\ response = "set"

\* C8: the worker loop ends only after a stop(): it leaves the loop only at
\* the while test, with running False and a stop() called in its lifetime; an
\* exception anywhere in a chunk sends it back to the while test; and a chunk
\* whose input read failed has no output write.
C8_OnlyStopEndsLoop ==
    /\ [][\A w \in Workers :
            /\ (pc[w] # "done" /\ pc'[w] = "done")
                    => (pc[w] = "loop" /\ ~running /\ stopped[w])
            /\ (abort'[w] # abort[w] /\ abort'[w] # "none") => pc'[w] = "loop"]_vars
    /\ [](\A w \in Workers : abort[w] = "read" => done[w] \cup wfail[w] = {})
\* a worker whose chunk ended in an exception of the mix is at the while
\* test of a session that was never stopped
C8_ExceptionThenNextChunk ==
    \E w \in Workers :
        pc[w] = "loop" /\ running /\ ~stopped[w] /\ abort[w] = "RuntimeError"

\* C9: a failing write to one destination does not abort the chunk: the
\* worker goes on to the next destination of the snapshot (or to the next
\* chunk after the last), and a chunk that ends without an exception has
\* computed and tried to write every destination that stayed active.
C9_WriteFailureContinues ==
    /\ [][\A w \in Workers :
            (pc[w] = "write" /\ wfail'[w] # wfail[w])
                => /\ abort'[w] = abort[w]
                   /\ IF idx[w] < Len(devs[w])
                      THEN pc'[w] = "chk" /\ idx'[w] = idx[w] + 1 /\ devs'[w] = devs[w]
                      ELSE pc'[w] = "loop"]_vars
    /\ [](\A w \in Workers :
            (pc[w] = "loop" /\ abort[w] = "none")
                => stable[w] \subseteq (done[w] \cup wfail[w]))
\* a chunk ended in which the write to the first destination failed on an
\* open stream and the second destination was written
C9_LaterDestinationWritten ==
    \E w \in Workers :
        /\ pc[w] = "loop" /\ abort[w] = "none"
        /\ Len(output_devices) = 2
        /\ output_devices[1] \in wfail[w] /\ output_devices[1] \in streams
        /\ output_devices[2] \in done[w]

\* C10: with a constant latency L > 0 and chunks of N frames, fed from an
\* empty buffer whose capacity is never exceeded, the first
\* ceil((2N+L)/(2N)) - 1 output chunks are silence and every later output
\* chunk k is input chunk k - ceil(L/(2N)), sample for sample.
C10_DelayedByWholeChunks ==
    (dl_latency > 0 /\ ~dl_dropped) =>
        LET n2 == DelayFrames * 2
            silent == CeilDiv(n2 + dl_latency, n2) - 1
            c == CeilDiv(dl_latency, n2)
        IN  \A k \in 1..Len(dl_out) :
                IF k <= silent THEN dl_out[k] = Silence(DelayFrames)
                ELSE k - c >= 1 /\ dl_out[k] = dl_in[k - c]
\* a latency of more than one chunk: the second output is silence and the
\* latest output is the input of ceil(L/(2N)) chunks before
C10_TwoChunksLate ==
    /\ dl_latency > DelayFrames * 2 /\ ~dl_dropped
    /\ Len(dl_out) >= 4
    /\ dl_out[2] = Silence(DelayFrames)
    /\ dl_out[Len(dl_out)] = dl_in[Len(dl_out) - CeilDiv(dl_latency, DelayFrames * 2)]

\* the samples of a sequence from position n on
From(s, n) == SubSeq(s, n, Len(s))

\* C11: in every chunk iteration with latency_samples > 0 the chunk is
\* appended first; if the buffer then holds at least 2N + latency_samples
\* samples, exactly its oldest 2N are popped and they are the output;
\* otherwise the output is N frames of silence, nothing is popped and the
\* appended chunk is at the end of the buffer.
C11_EmitsOnlyWhenFilled ==
    [][(Len(dl_in') = Len(dl_in) + 1 /\ dl_latency > 0) =>
        LET n2 == DelayFrames * 2
            chunk == dl_in'[Len(dl_in')]
            out == dl_out'[Len(dl_out')]
            all == dl_buffer \o chunk
            count == IF Len(all) > dl_maxlen THEN dl_maxlen ELSE Len(all)
            held == From(all, Len(all) - count + 1)
        IN  /\ Len(dl_out') = Len(dl_out) + 1
            /\ IF count >= n2 + dl_latency
               THEN /\ Len(out) = n2
                    /\ out \o dl_buffer' = held
               ELSE /\ out = [j \in 1..n2 |-> 0]
                    /\ dl_buffer' = held
                    /\ From(dl_buffer', Len(dl_buffer') - n2 + 1) = chunk]_vars
\* after a chunk was emitted the latency was raised: the next chunk is
\* answered with silence and waits at the end of the buffer
C11_SilenceKeepsInput ==
    /\ dl_latency > 0
    /\ Len(dl_out) >= 3
    /\ dl_out[Len(dl_out) - 1] = dl_in[Len(dl_out) - 2]
    /\ dl_out[Len(dl_out)] = Silence(DelayFrames)
    /\ Len(dl_buffer) >= DelayFrames * 2
    /\ From(dl_buffer, Len(dl_buffer) - DelayFrames * 2 + 1) = dl_in[Len(dl_in)]

\* C12: every chunk put out after set_latency(d, ms) returned is delayed by
\* the new latency_samples at whole-chunk granularity: with the new latency 0
\* it is the chunk of the same iteration, else it is the input of
\* ceil(latency_samples / 2N) chunks before, or silence while that input is
\* not there yet.
C12_NewLatencyFromNextChunk ==
    \A k \in (dl_set_at + 1)..Len(dl_out) :
        IF dl_latency = 0 THEN dl_out[k] = dl_in[k]
        ELSE LET c == CeilDiv(dl_latency, DelayFrames * 2)
             IN  \/ dl_out[k] = Silence(DelayFrames)
                 \/ (k - c >= 1 /\ dl_out[k] = dl_in[k - c])

\* C13: while latency_samples is 0 every output chunk is the chunk of the
\* same iteration, the delay buffer is neither appended to nor popped from,
\* and it holds no samples.
C13_ZeroLatencyBypasses ==
    /\ [][(Len(dl_in') = Len(dl_in) + 1 /\ dl_latency = 0) =>
            /\ dl_out'[Len(dl_out')] = dl_in'[Len(dl_in')]
            /\ dl_buffer' = dl_buffer]_vars
    /\ [](dl_latency = 0 => dl_buffer = << >>)

\* C14: every destination's delay buffer holds at most its capacity, and the
\* capacity is 2 seconds of interleaved stereo samples at the current sample
\* rate: 2 x sample_rate frames of 2 samples.
C14_TwoSecondsOfStereo ==
    \A d \in DOMAIN latency_buffers :
        /\ latency_buffers[d].len <= latency_buffers[d].maxlen
        /\ latency_buffers[d].maxlen = 2 * sample_rate * 2

\* a / b rounded to the nearest whole number, for a >= 0 and b > 0
RoundDiv(a, b) == (2 * a + b) \div (2 * b)

\* C15: set_latency(d, ms) for a known destination stores
\* round(ms / 1000 x sample_rate), the nearest whole number of samples.
C15_StoresNearestSample ==
    [][(request'.endpoint = "AudioRouter.set_latency"
            /\ request'.device_id \in DOMAIN latency_offsets)
        => latency_offsets'[request'.device_id] =
                RoundDiv(request'.latency_ms * sample_rate', 1000)]_vars

\* C16: the cutoffs set_filter hands to the coefficient computation satisfy
\* 0 < low < high < Nyquist, low in [20, Nyquist - 100] and high in
\* [low + 100, Nyquist - 10], at the sample rate they were computed for.
C16_CutoffsInsideBand ==
    \A d \in DOMAIN filters :
        filters[d].enabled =>
            LET low == filters[d].highpass.cutoff
                high == filters[d].lowpass.cutoff
                nyquist == filters[d].highpass.rate \div 2
            IN  /\ 0 < low /\ low < high /\ high < nyquist
                /\ 20 <= low /\ low <= nyquist - 100
                /\ low + 100 <= high /\ high <= nyquist - 10

\* C17: after set_filter(d, low, high) has returned, the first process() of
\* each of the four stages of d begins from z1 = z2 = 0, also when set_filter
\* ran while the worker was inside process() for d.
C17_NextChunkStartsFromZero ==
    [][\A w \in Workers :
        (/\ pc[w] = "proc" /\ pc'[w] = "proc_end"
         /\ filter_cfg[w].ref = "live"
         /\ filter_cfg[w].stage \in fresh[Cur(w)])
            => filters[Cur(w)].zeroed[filter_cfg[w].stage]]_vars

\* the gain a map gives a channel, 0 for a channel it does not hold, and the
\* sum over the six input channels of gain x sample for one frame
GainOf(m, c) == IF c \in DOMAIN m THEN m[c] ELSE 0
WeightedSum(frame, m) ==
    GainOf(m, 0) * frame[1] + GainOf(m, 1) * frame[2] + GainOf(m, 2) * frame[3]
    + GainOf(m, 3) * frame[4] + GainOf(m, 4) * frame[5] + GainOf(m, 5) * frame[6]

\* C18: every entry stored in a destination's L or R gain map has gain > 0,
\* and set_connection_lr with gain <= 0 leaves the bus without an entry for
\* that channel and every other entry of every map as it was.
C18_StoredGainsPositive ==
    /\ [](\A d \in DOMAIN connections : \A side \in {"L", "R"} :
            \A ch \in DOMAIN connections[d][side] : connections[d][side][ch] > 0)
    /\ [][(/\ request'.endpoint = "AudioRouter.set_connection_lr"
           /\ request'.mix_level <= 0
           /\ request'.device_id \in DOMAIN connections
           /\ request'.side \in {"L", "R"})
          => LET d == request'.device_id
                 side == request'.side
                 ch == request'.channel_idx
                 before == connections[d][side]
                 after == connections'[d][side]
             IN  /\ ch \notin DOMAIN after
                 /\ DOMAIN after = DOMAIN before \ {ch}
                 /\ \A c \in DOMAIN after : after[c] = before[c]
                 /\ \A o \in {"L", "R"} \ {side} :
                        connections'[d][o] = connections[d][o]
                 /\ \A e \in DOMAIN connections \ {d} :
                        connections'[e] = connections[e]]_vars
\* channel 0 was just set to gain 0 on bus L of a destination whose bus L
\* holds channel 1 and whose bus R holds channel 0
C18_RemovedFromOneBus ==
    /\ request.endpoint = "AudioRouter.set_connection_lr"
    /\ request.mix_level = 0 /\ request.channel_idx = 0 /\ request.side = "L"
    /\ request.device_id \in DOMAIN connections
    /\ DOMAIN connections[request.device_id]["L"] = {1}
    /\ 0 \in DOMAIN connections[request.device_id]["R"]

\* C19: every channel index stored in a gain map lies in [0, 6), and no mix
\* ends in an index outside the input chunk.
C19_ChannelsInRange ==
    /\ \A d \in DOMAIN connections : \A side \in {"L", "R"} :
            \A ch \in DOMAIN connections[d][side] : ch \in 0..(InputChannels - 1)
    /\ mx_status # "IndexError"

\* C20: with the filter disabled and latency 0, every frame written to a
\* destination has as its left sample the sum over the L map of gain x input
\* sample of that channel, as its right sample the same sum over the R map,
\* channels without an entry adding nothing; with L = {0: 1} and R = {1: 1}
\* the frame is input channels 0 and 1.
C20_MixIsGainWeightedSum ==
    mx_status = "written" =>
        LET d == request.device_id
            l_map == connections[d]["L"]
            r_map == connections[d]["R"]
        IN  /\ ~filters[d].enabled /\ latency_offsets[d] = 0
            /\ Len(mx_output) = Len(mx_audio)
            /\ \A f \in DOMAIN mx_audio :
                /\ mx_output[f] = <<WeightedSum(mx_audio[f], l_map),
                                    WeightedSum(mx_audio[f], r_map)>>
                /\ (l_map = (0 :> 1) /\ r_map = (1 :> 1))
                        => mx_output[f] = <<mx_audio[f][1], mx_audio[f][2]>>
\* a chunk was written for a destination whose bus L holds channel 0 at gain 1
\* and channel 1 at gain 2 and whose bus R holds channel 1 at gain 1
C20_TwoChannelsOnLeft ==
    /\ mx_status = "written"
    /\ connections[request.device_id]["L"] = (0 :> 1 @@ 1 :> 2)
    /\ connections[request.device_id]["R"] = (1 :> 1)
    /\ mx_output[1][1] = mx_audio[1][1] + 2 * mx_audio[1][2]
    /\ mx_output[1][2] = mx_audio[1][2]

\* C21: between control operations the tables output_devices, connections,
\* latency_offsets, latency_buffers, output_levels and filters have the same
\* key set, and every key of streams is one of them.
C21_TablesShareKeys ==
    LET keys == Keys(output_devices)
    IN  /\ DOMAIN connections = keys
        /\ DOMAIN latency_offsets = keys
        /\ DOMAIN latency_buffers = keys
        /\ DOMAIN output_levels = keys
        /\ DOMAIN filters = keys
        /\ streams \subseteq keys

====
